---- MODULE Spec2Model ----
(***************************************************************************)
(* EuroJackpot record-keeping API (backend/main.py, schemas.py,            *)
(* database.py) as a state machine.                                        *)
(*                                                                         *)
(* State: the two MongoDB collections "draw" and "prediction" (in natural  *)
(* = insertion order), the ObjectId generator, the wall clock read by      *)
(* _now()/utcnow(), and the response of the last request.  One action per  *)
(* endpoint; a request handler is one atomic step.                         *)
(*                                                                         *)
(* Text (csv block, free-text block, date strings, path ids) is a sequence *)
(* of one-character strings, so that csv.reader, str.splitlines, split,    *)
(* strip, lower, int() and the date / ObjectId parsers are computed.       *)
(* Alphabet of the inputs: digits, letters, "-", "+", ",", ";", " ",       *)
(* "\t", "\n", "\r".  The csv quote character is outside the alphabet.     *)
(*                                                                         *)
(* The store and the framework are taken as the code uses them: a          *)
(* collection keeps and compares a calendar date as a value, a response    *)
(* model renders the _id as its text, and a request body that is no valid  *)
(* Draw / Prediction is answered 422 before the handler runs.              *)
(***************************************************************************)
EXTENDS Integers, Sequences, FiniteSets, TLC

VARIABLES draw, prediction, next_oid, clock, resp

vars == <<draw, prediction, next_oid, clock, resp>>

(***************************************************************************)
(* Bounds of the model and constants of the program.                       *)
(***************************************************************************)
MaxOid == 3          \* ObjectIds the store hands out in one behaviour
MaxClock == 1        \* ticks of the wall clock in one behaviour

MainCount == 5       \* schemas.py: min_items=5, max_items=5, len(set(v)) != 5
MainMax == 50        \* schemas.py: 1 <= n <= 50
EuroCount == 2       \* schemas.py: min_items=2, max_items=2, len(set(v)) != 2
EuroMax == 12        \* schemas.py: 1 <= n <= 12
OidHexLen == 24      \* bson ObjectId: 12 bytes = 24 hex characters

(***************************************************************************)
(* Optional values: None is the empty tuple, a present value v is <<v>>.   *)
(***************************************************************************)
None == <<>>
Some(v) == <<v>>

(***************************************************************************)
(* Python built-ins on text.                                               *)
(***************************************************************************)
DigitChars == <<"0", "1", "2", "3", "4", "5", "6", "7", "8", "9">>
HexChars == DigitChars \o <<"a", "b", "c", "d", "e", "f">>
UpperChars == <<"A", "B", "C", "D", "E", "F", "G", "H", "I", "J", "K", "L", "M",
                "N", "O", "P", "Q", "R", "S", "T", "U", "V", "W", "X", "Y", "Z">>
LowerChars == <<"a", "b", "c", "d", "e", "f", "g", "h", "i", "j", "k", "l", "m",
                "n", "o", "p", "q", "r", "s", "t", "u", "v", "w", "x", "y", "z">>

IndexOf(c, chars) ==
    IF \E i \in 1..Len(chars) : chars[i] = c
    THEN CHOOSE i \in 1..Len(chars) : chars[i] = c
    ELSE 0

IsDigit(c) == IndexOf(c, DigitChars) > 0
DigitVal(c) == IndexOf(c, DigitChars) - 1

\* str.isspace for the characters of the alphabet
IsSpace(c) == c \in {" ", "\t", "\n", "\r"}

\* str.lower, one character
LowerChar(c) == IF IndexOf(c, UpperChars) > 0 THEN LowerChars[IndexOf(c, UpperChars)] ELSE c
lower(s) == [i \in 1..Len(s) |-> LowerChar(s[i])]

\* the k-th smallest member of a set of integers, and the set in order
KthSmallest(S, k) == CHOOSE x \in S : Cardinality({y \in S : y < x}) = k - 1
Ascending(S) == [k \in 1..Cardinality(S) |-> KthSmallest(S, k)]

\* str.strip(): from the first to the last character that is not whitespace
strip(s) ==
    LET keep == {i \in 1..Len(s) : ~ IsSpace(s[i])}
    IN  IF keep = {} THEN <<>>
        ELSE SubSeq(s, KthSmallest(keep, 1), KthSmallest(keep, Cardinality(keep)))

\* str.split(sep): the pieces between the separators, empty pieces kept,
\* always at least one piece
split(s, sep) ==
    LET at == Ascending({i \in 1..Len(s) : s[i] = sep})
        n == Len(at)
    IN  [k \in 1..(n + 1) |->
            SubSeq(s, IF k = 1 THEN 1 ELSE at[k - 1] + 1, IF k = n + 1 THEN Len(s) ELSE at[k] - 1)]

\* str.split(): the maximal runs of characters that are not whitespace
split_ws(s) ==
    LET first == Ascending({i \in 1..Len(s) : ~ IsSpace(s[i]) /\ (i = 1 \/ IsSpace(s[i - 1]))})
        last == Ascending({i \in 1..Len(s) : ~ IsSpace(s[i]) /\ (i = Len(s) \/ IsSpace(s[i + 1]))})
    IN  [k \in 1..Len(first) |-> SubSeq(s, first[k], last[k])]

\* str.splitlines(): breaks at "\n", "\r" and "\r\n" (one break); the text
\* after the last break is a line only when it is not empty
splitlines(s) ==
    LET at == Ascending({i \in 1..Len(s) :
                            \/ s[i] = "\r"
                            \/ s[i] = "\n" /\ ~ (i > 1 /\ s[i - 1] = "\r")})
        n == Len(at)
        After(k) == IF s[at[k]] = "\r" /\ at[k] < Len(s) /\ s[at[k] + 1] = "\n"
                    THEN at[k] + 2 ELSE at[k] + 1
        From(k) == IF k = 1 THEN 1 ELSE After(k - 1)
        tail == IF n = 0 THEN s ELSE SubSeq(s, After(n), Len(s))
    IN  [k \in 1..n |-> SubSeq(s, From(k), at[k] - 1)]
        \o (IF tail = <<>> THEN <<>> ELSE <<tail>>)

\* seq[a:b] of Python, 0-based half-open, clipped to the sequence
Slice(s, a, b) == SubSeq(s, a + 1, IF b < Len(s) THEN b ELSE Len(s))

\* decimal value of a sequence of digit characters
RECURSIVE DecimalValue(_)
DecimalValue(s) ==
    IF s = <<>> THEN 0 ELSE 10 * DecimalValue(SubSeq(s, 1, Len(s) - 1)) + DigitVal(s[Len(s)])

AllDigits(s) == \A i \in 1..Len(s) : IsDigit(s[i])

\* int(text): surrounding whitespace and one sign allowed, then digits only;
\* anything else is a ValueError (ok = FALSE)
int(tok) ==
    LET t == strip(tok)
        signed == t # <<>> /\ Head(t) \in {"+", "-"}
        digits == IF signed THEN Tail(t) ELSE t
    IN  IF digits # <<>> /\ AllDigits(digits)
        THEN [ok |-> TRUE,
              v |-> IF signed /\ Head(t) = "-" THEN 0 - DecimalValue(digits)
                    ELSE DecimalValue(digits)]
        ELSE [ok |-> FALSE, v |-> 0]

\* list(map(int, cells)): fails as soon as one cell fails
MapInt(cells) ==
    IF \A i \in 1..Len(cells) : int(cells[i]).ok
    THEN [ok |-> TRUE, v |-> [i \in 1..Len(cells) |-> int(cells[i]).v]]
    ELSE [ok |-> FALSE, v |-> <<>>]

(***************************************************************************)
(* Dates.  A calendar date is the integer yyyymmdd, which orders as the    *)
(* dates do.  Pydantic's `date` accepts the text YYYY-MM-DD of a real day; *)
(* the inputs of the model never have an all-digit date text (which        *)
(* pydantic would read as a Unix time).                                    *)
(***************************************************************************)
IsLeap(y) == (y % 4 = 0 /\ y % 100 # 0) \/ y % 400 = 0

DaysInMonth(y, m) ==
    IF m = 2 THEN (IF IsLeap(y) THEN 29 ELSE 28)
    ELSE IF m \in {4, 6, 9, 11} THEN 30 ELSE 31

\* schemas.py `date: date`: text -> date, or a validation error (ok = FALSE)
ParseDate(s) ==
    IF /\ Len(s) = 10
       /\ s[5] = "-" /\ s[8] = "-"
       /\ \A i \in {1, 2, 3, 4, 6, 7, 9, 10} : IsDigit(s[i])
    THEN LET y == DecimalValue(SubSeq(s, 1, 4))
             m == DecimalValue(SubSeq(s, 6, 7))
             d == DecimalValue(SubSeq(s, 9, 10))
         IN  IF y >= 1 /\ m \in 1..12 /\ d \in 1..DaysInMonth(y, m)
             THEN [ok |-> TRUE, v |-> y * 10000 + m * 100 + d]
             ELSE [ok |-> FALSE, v |-> 0]
    ELSE [ok |-> FALSE, v |-> 0]

\* n written with exactly w decimal digits
RECURSIVE Pad(_, _)
Pad(n, w) == IF w = 0 THEN <<>> ELSE Append(Pad(n \div 10, w - 1), DigitChars[(n % 10) + 1])

\* str(date): YYYY-MM-DD
FormatDate(v) ==
    Pad(v \div 10000, 4) \o <<"-">> \o Pad((v \div 100) % 100, 2) \o <<"-">> \o Pad(v % 100, 2)

(***************************************************************************)
(* ObjectIds.  The store's n-th id is the integer n; str(oid) is its 24    *)
(* hexadecimal digits and ObjectId(text) accepts exactly 24 such digits.   *)
(***************************************************************************)
RECURSIVE HexPad(_, _)
HexPad(n, w) == IF w = 0 THEN <<>> ELSE Append(HexPad(n \div 16, w - 1), HexChars[(n % 16) + 1])

\* str(oid) of the ids the store hands out, computed once
OidStrs == [n \in 1..(MaxOid + 1) |-> HexPad(n, OidHexLen)] \o <<>>

\* str(doc["_id"])
OidStr(n) == IF n \in DOMAIN OidStrs THEN OidStrs[n] ELSE HexPad(n, OidHexLen)

RECURSIVE HexValue(_)
HexValue(s) ==
    IF s = <<>> THEN 0
    ELSE 16 * HexValue(SubSeq(s, 1, Len(s) - 1)) + (IndexOf(LowerChar(s[Len(s)]), HexChars) - 1)

\* ObjectId(draw_id): raises (ok = FALSE) unless 24 hex digits
ObjectId(s) ==
    IF Len(s) = OidHexLen /\ \A i \in 1..Len(s) : IndexOf(LowerChar(s[i]), HexChars) > 0
    THEN [ok |-> TRUE, v |-> HexValue(s)]
    ELSE [ok |-> FALSE, v |-> 0]

(***************************************************************************)
(* Validation layer (schemas.py).                                          *)
(***************************************************************************)
Range(s) == {s[i] : i \in 1..Len(s)}

\* Field(min_items=.., max_items=..)
LengthOk(v, lo, hi) == Len(v) >= lo /\ Len(v) <= hi

\* validate_main without its first test
validate_main_no_unique(v) ==
    IF ~ \A i \in 1..Len(v) : 1 <= v[i] /\ v[i] <= MainMax
    THEN "Main numbers must be in 1..50"
    ELSE ""

\* Draw.validate_main: "" when the value passes, else the message raised
validate_main(v) ==
    IF Cardinality(Range(v)) # MainCount
    THEN "Main numbers must be unique and length 5"
    ELSE IF ~ \A i \in 1..Len(v) : 1 <= v[i] /\ v[i] <= MainMax
    THEN "Main numbers must be in 1..50"
    ELSE ""

\* Draw.validate_euro
validate_euro(v) ==
    IF Cardinality(Range(v)) # EuroCount
    THEN "Euro numbers must be unique and length 2"
    ELSE IF ~ \A i \in 1..Len(v) : 1 <= v[i] /\ v[i] <= EuroMax
    THEN "Euro numbers must be in 1..12"
    ELSE ""

\* Prediction.v_main / v_euro
v_main(v) ==
    IF Cardinality(Range(v)) # MainCount \/ ~ \A i \in 1..Len(v) : 1 <= v[i] /\ v[i] <= MainMax
    THEN "Main numbers invalid" ELSE ""

v_euro(v) ==
    IF Cardinality(Range(v)) # EuroCount \/ ~ \A i \in 1..Len(v) : 1 <= v[i] /\ v[i] <= EuroMax
    THEN "Euro numbers invalid" ELSE ""

\* Draw(date=.., main=.., euro=.., source=..): the validated model, or the
\* set of fields the ValidationError names.  A field validator runs only on
\* a value that passed the field's own length constraint.
Draw(date, main, euro, source) ==
    LET d == ParseDate(date)
        bad == {f \in {"date", "main", "euro"} :
                  \/ f = "date" /\ ~ d.ok
                  \/ f = "main" /\ (~ LengthOk(main, MainCount, MainCount) \/ validate_main(main) # "")
                  \/ f = "euro" /\ (~ LengthOk(euro, EuroCount, EuroCount) \/ validate_euro(euro) # "")}
    IN  IF bad = {}
        THEN [ok |-> TRUE, bad |-> {},
              value |-> [date |-> d.v, main |-> main, euro |-> euro, source |-> source]]
        ELSE [ok |-> FALSE, bad |-> bad]

\* Prediction(main=.., euro=.., seed=.., method=.., notes=..)
Prediction(main, euro, seed, method, notes) ==
    LET bad == {f \in {"main", "euro"} :
                  \/ f = "main" /\ (~ LengthOk(main, MainCount, MainCount) \/ v_main(main) # "")
                  \/ f = "euro" /\ (~ LengthOk(euro, EuroCount, EuroCount) \/ v_euro(euro) # "")}
    IN  IF bad = {}
        THEN [ok |-> TRUE, bad |-> {},
              value |-> [main |-> main, euro |-> euro, seed |-> seed,
                         method |-> method, notes |-> notes]]
        ELSE [ok |-> FALSE, bad |-> bad]

(***************************************************************************)
(* Match engine (main.py).                                                 *)
(***************************************************************************)
\* count_matches with the euro matches left out of the total
count_matches_main_only(pred, drw) ==
    LET main_matches == Cardinality(Range(pred.main) \cap Range(drw.main))
        euro_matches == Cardinality(Range(pred.euro) \cap Range(drw.euro))
    IN  [main |-> main_matches, euro |-> euro_matches, total |-> main_matches]

\* count_matches(pred, draw)
count_matches(pred, drw) ==
    LET main_matches == Cardinality(Range(pred.main) \cap Range(drw.main))
        euro_matches == Cardinality(Range(pred.euro) \cap Range(drw.euro))
    IN  [main |-> main_matches, euro |-> euro_matches, total |-> main_matches + euro_matches]

(***************************************************************************)
(* Record store gateway (database.py) and the pymongo calls of main.py.    *)
(* A collection is the sequence of its documents in insertion order.       *)
(***************************************************************************)
\* create_document: the document inserted, data plus timestamps and _id; its
\* two reads of _now() fall in the same tick of the model's clock
create_document(data, oid, now) ==
    data @@ [created_at |-> now, updated_at |-> now, _id |-> oid]

\* cursor.sort([(key, -1)]): the orders MongoDB may return, descending by
\* key, documents with equal keys in any order
SortedDesc(coll, key) ==
    {s \in {[i \in 1..Len(coll) |-> coll[p[i]]] : p \in Permutations(1..Len(coll))} :
        \A i \in 1..(Len(s) - 1) : s[i][key] >= s[i + 1][key]}

\* cursor.limit(int(limit)) under `if limit:` (None and 0 leave the cursor whole)
Limited(docs, limit) ==
    IF limit = None \/ limit[1] = 0 THEN docs
    ELSE SubSeq(docs, 1, IF limit[1] < Len(docs) THEN limit[1] ELSE Len(docs))

\* find_one() with no sort: the first document in natural order
LatestDrawsUnsorted(coll) == {coll[1]}

\* find_one(sort=[("date", -1)]): the documents that may come back
LatestDraws(coll) == {s[1] : s \in {t \in SortedDesc(coll, "date") : t # <<>>}}

\* a lookup that sees the first document only
ExistsDateFirstOnly(coll, date) == coll # <<>> /\ coll[1].date = date

\* find_one({"date": date}) is not None
ExistsDate(coll, date) == \E i \in 1..Len(coll) : coll[i].date = date

\* documents left by delete_one({"_id": oid})
WithoutId(coll, oid) == LET Keep(d) == d._id # oid IN SelectSeq(coll, Keep)

HasId(coll, oid) == \E i \in 1..Len(coll) : coll[i]._id = oid

(***************************************************************************)
(* csv.reader(io.StringIO(text)) for unquoted text.  StringIO hands the    *)
(* reader one line at a time, cut after each "\n"; the reader runs its     *)
(* character state machine over the line and yields one row, or raises     *)
(* csv.Error when a character other than "\r" or "\n" follows a "\r".      *)
(***************************************************************************)
\* iteration over io.StringIO(text): each line with the "\n" that ends it
StringIOLines(s) ==
    LET at == Ascending({i \in 1..Len(s) : s[i] = "\n"})
        n == Len(at)
        tail == IF n = 0 THEN s ELSE SubSeq(s, at[n] + 1, Len(s))
    IN  [k \in 1..n |-> SubSeq(s, IF k = 1 THEN 1 ELSE at[k - 1] + 1, at[k])]
        \o (IF tail = <<>> THEN <<>> ELSE <<tail>>)

\* The reader on one line.  Its states: from START_RECORD / START_FIELD /
\* IN_FIELD the delimiter ends a field and "\r" or "\n" ends the last field
\* and enters EAT_CRNL; in EAT_CRNL only "\r", "\n" and the end of the line
\* are accepted, any other character raises csv.Error ("new-line character
\* seen in unquoted field").  A line that begins with "\r" or "\n" is the
\* empty row.
parse_line(line) ==
    LET eol == {i \in 1..Len(line) : line[i] \in {"\r", "\n"}}
        first == IF eol = {} THEN Len(line) + 1 ELSE KthSmallest(eol, 1)
        fields == SubSeq(line, 1, first - 1)
    IN  IF \E i \in first..Len(line) : line[i] \notin {"\r", "\n"}
        THEN [ok |-> FALSE, row |-> <<>>]
        ELSE [ok |-> TRUE, row |-> IF fields = <<>> THEN <<>> ELSE split(fields, ",")]

\* what the reader's iterator gives for each line: a row, or csv.Error
csv_reader(text) ==
    LET lines == StringIOLines(text)
    IN  [i \in 1..Len(lines) |-> parse_line(lines[i])]

(***************************************************************************)
(* Bulk ingestion (main.py add_draws_bulk).  Reading, parsing and          *)
(* validating a record does not depend on the store, so the three loops    *)
(* are modelled in two halves: the records of a payload in the order the   *)
(* handler meets them, each with the outcome of its Draw(...) expression   *)
(* (BulkRecords), and the handler's run over them, which inserts or        *)
(* reports each one before it goes on to the next (BulkRun).               *)
(***************************************************************************)
DateLabel == <<"d", "a", "t", "e">>
DataLabel == <<"d", "a", "t", "a">>

\* the csv row is skipped: `not row or row[0].strip().lower() in ("date", "data")`
CsvSkipped(row) == row = <<>> \/ lower(strip(row[1])) \in {DateLabel, DataLabel}

\* the Draw(...) expression of the csv loop: the model, or the exception
CsvDraw(row) ==
    LET main == MapInt(Slice(row, 1, 6))
        euro == MapInt(Slice(row, 6, 8))
    IN  IF ~ main.ok \/ ~ euro.ok THEN [ok |-> FALSE, error |-> "ValueError"]
        ELSE LET d == Draw(row[1], main.v, euro.v, None)
             IN  IF d.ok THEN d ELSE [ok |-> FALSE, error |-> "ValidationError"]

\* Draw(**item) of the json loop; item is None-or-value per key, or not a dict
JsonDraw(item) ==
    IF ~ item.isdict THEN [ok |-> FALSE, error |-> "TypeError"]
    ELSE IF item.date = None \/ item.main = None \/ item.euro = None
    THEN [ok |-> FALSE, error |-> "ValidationError"]
    ELSE LET d == Draw(item.date[1], item.main[1], item.euro[1], item.source)
         IN  IF d.ok THEN d ELSE [ok |-> FALSE, error |-> "ValidationError"]

\* the Draw(...) expression of the free-text loop
TextDraw(line) ==
    LET raw == split(line, ";")
        parts == [i \in 1..Len(raw) |-> strip(raw[i])]
    IN  IF Len(parts) < 3 THEN [ok |-> FALSE, error |-> "IndexError"]
        ELSE LET main == MapInt(Slice(split_ws(parts[2]), 0, 5))
                 euro == MapInt(Slice(split_ws(parts[3]), 0, 2))
             IN  IF ~ main.ok \/ ~ euro.ok THEN [ok |-> FALSE, error |-> "ValueError"]
                 ELSE LET d == Draw(parts[1], main.v, euro.v, None)
                      IN  IF d.ok THEN d ELSE [ok |-> FALSE, error |-> "ValidationError"]

\* for i, row in enumerate(reader): a csv.Error of the reader is raised by
\* the `for` itself, outside the try, and ends the handler
RECURSIVE CsvRecords(_, _)
CsvRecords(rows, i) ==
    IF i >= Len(rows) THEN <<>>
    ELSE IF ~ rows[i + 1].ok THEN <<[kind |-> "raise"]>>
    ELSE IF CsvSkipped(rows[i + 1].row) THEN CsvRecords(rows, i + 1)
    ELSE <<[kind |-> "try", d |-> CsvDraw(rows[i + 1].row), descriptor |-> [row |-> i + 1]]>>
         \o CsvRecords(rows, i + 1)

\* for i, item in enumerate(payload.json)
RECURSIVE JsonRecords(_, _)
JsonRecords(items, i) ==
    IF i >= Len(items) THEN <<>>
    ELSE <<[kind |-> "try", d |-> JsonDraw(items[i + 1]), descriptor |-> [json_index |-> i]]>>
         \o JsonRecords(items, i + 1)

\* for i, line in enumerate(payload.text.splitlines())
RECURSIVE TextRecords(_, _)
TextRecords(lines, i) ==
    IF i >= Len(lines) THEN <<>>
    ELSE IF strip(lines[i + 1]) = <<>> THEN TextRecords(lines, i + 1)
    ELSE <<[kind |-> "try", d |-> TextDraw(lines[i + 1]), descriptor |-> [line |-> i + 1]]>>
         \o TextRecords(lines, i + 1)

\* `if payload.csv:` and the like: None and the empty value are skipped
Truthy(opt) == opt # None /\ opt[1] # <<>>

Raises(records) == records # <<>> /\ records[Len(records)].kind = "raise"

\* the records of the three blocks in the handler's order; nothing is read
\* after an exception
BulkRecords(payload) ==
    LET csv == IF Truthy(payload.csv) THEN CsvRecords(csv_reader(payload.csv[1]), 0) ELSE <<>>
        json == IF Truthy(payload.json) THEN JsonRecords(payload.json[1], 0) ELSE <<>>
        text == IF Truthy(payload.text) THEN TextRecords(splitlines(payload.text[1]), 0) ELSE <<>>
    IN  IF Raises(csv) THEN csv ELSE csv \o json \o text

\* body of one `try`: create_document and inserted.append, or errors.append
TryInsert(acc, d, descriptor, now) ==
    IF d.ok
    THEN [acc EXCEPT !.draw = Append(@, create_document(d.value, acc.next_oid, now)),
                     !.next_oid = @ + 1,
                     !.inserted = Append(@, OidStr(acc.next_oid))]
    ELSE [acc EXCEPT !.errors = Append(@, descriptor @@ [error |-> d.error])]

\* the handler's run over the records
RECURSIVE BulkRun(_, _, _)
BulkRun(records, acc, now) ==
    IF records = <<>> THEN acc
    ELSE IF Head(records).kind = "raise" THEN [acc EXCEPT !.raised = TRUE]
    ELSE BulkRun(Tail(records),
                 TryInsert(acc, Head(records).d, Head(records).descriptor, now), now)

(***************************************************************************)
(* Requests the clients send.                                              *)
(***************************************************************************)
RECURSIVE Str(_)
Str(n) == IF n < 10 THEN <<DigitChars[n + 1]>> ELSE Append(Str(n \div 10), DigitChars[(n % 10) + 1])

RECURSIVE Join(_, _)
Join(pieces, sep) ==
    IF pieces = <<>> THEN <<>>
    ELSE IF Len(pieces) = 1 THEN pieces[1]
    ELSE pieces[1] \o sep \o Join(Tail(pieces), sep)

Nums(ns) == [i \in 1..Len(ns) |-> Str(ns[i])]

Date1 == <<"2", "0", "2", "4", "-", "0", "1", "-", "0", "5">>
Date2 == <<"2", "0", "2", "4", "-", "0", "1", "-", "1", "2">>
BadDate == <<"2", "0", "2", "4", "-", "1", "3", "-", "0", "1">>

ValidDrawBodies ==
    { [date |-> Date1, main |-> <<1, 2, 3, 4, 5>>, euro |-> <<6, 7>>, source |-> None],
      [date |-> Date2, main |-> <<3, 4, 5, 6, 7>>, euro |-> <<2, 12>>, source |-> Some("manual")] }

InvalidDrawBodies ==
    { [date |-> Date2, main |-> <<1, 2, 3, 4>>, euro |-> <<1, 2>>, source |-> None],
      [date |-> Date2, main |-> <<1, 2, 3, 4, 5, 6>>, euro |-> <<1, 2>>, source |-> None],
      [date |-> Date2, main |-> <<1, 1, 2, 3, 4>>, euro |-> <<1, 2>>, source |-> None],
      [date |-> Date2, main |-> <<1, 2, 3, 4, 51>>, euro |-> <<1, 2>>, source |-> None],
      [date |-> Date2, main |-> <<0, 1, 2, 3, 4>>, euro |-> <<1, 2>>, source |-> None],
      [date |-> Date2, main |-> <<1, 2, 3, 4, 5>>, euro |-> <<7>>, source |-> None],
      [date |-> Date2, main |-> <<1, 2, 3, 4, 5>>, euro |-> <<7, 7>>, source |-> None],
      [date |-> Date2, main |-> <<1, 2, 3, 4, 5>>, euro |-> <<1, 13>>, source |-> None],
      [date |-> Date2, main |-> <<1, 2, 3, 4, 5>>, euro |-> <<0, 1>>, source |-> None],
      [date |-> Date2, main |-> <<1, 2, 3, 4, 5>>, euro |-> <<1, 2, 3>>, source |-> None],
      [date |-> BadDate, main |-> <<1, 2, 3, 4, 5>>, euro |-> <<1, 2>>, source |-> None] }

DrawBodies == ValidDrawBodies \cup InvalidDrawBodies

PredictionBodies ==
    { [main |-> <<1, 2, 3, 4, 5>>, euro |-> <<1, 2>>, seed |-> None,
       method |-> "consensus", notes |-> None],
      [main |-> <<10, 20, 30, 40, 50>>, euro |-> <<9, 10>>, seed |-> Some("s1"),
       method |-> "frequency", notes |-> None],
      [main |-> <<1, 2, 3, 4>>, euro |-> <<1, 2>>, seed |-> None,
       method |-> "consensus", notes |-> None],
      [main |-> <<1, 2, 3, 4, 5, 6>>, euro |-> <<1, 2>>, seed |-> None,
       method |-> "consensus", notes |-> None],
      [main |-> <<1, 2, 3, 3, 5>>, euro |-> <<1, 2>>, seed |-> None,
       method |-> "consensus", notes |-> None],
      [main |-> <<1, 2, 3, 4, 51>>, euro |-> <<1, 2>>, seed |-> None,
       method |-> "consensus", notes |-> None],
      [main |-> <<0, 2, 3, 4, 5>>, euro |-> <<1, 2>>, seed |-> None,
       method |-> "consensus", notes |-> None],
      [main |-> <<1, 2, 3, 4, 5>>, euro |-> <<2>>, seed |-> None,
       method |-> "consensus", notes |-> None],
      [main |-> <<1, 2, 3, 4, 5>>, euro |-> <<1, 2, 3>>, seed |-> None,
       method |-> "consensus", notes |-> None],
      [main |-> <<1, 2, 3, 4, 5>>, euro |-> <<0, 2>>, seed |-> None,
       method |-> "consensus", notes |-> None],
      [main |-> <<1, 2, 3, 4, 5>>, euro |-> <<2, 13>>, seed |-> None,
       method |-> "consensus", notes |-> None],
      [main |-> <<1, 2, 3, 4, 5>>, euro |-> <<5, 5>>, seed |-> None,
       method |-> "consensus", notes |-> None] }

\* csv rows
HeaderRow == <<"D", "a", "t", "e", ",", "m", "1">>
DataHeaderRow == <<" ", "D", "A", "T", "A", " ", ",", "n">>
RowV1 == Join(<<Date1>> \o Nums(<<1, 2, 3, 4, 5, 6, 7>>), <<",">>)
RowV1Extra == Join(<<Date1>> \o Nums(<<1, 2, 3, 4, 5, 6, 7, 99>>), <<",">>)
RowBadInt == Join(<<Date2, <<"1">>, <<"2">>, <<"x">>, <<"4">>, <<"5">>, <<"1">>, <<"2">>>>, <<",">>)
RowShort == Join(<<Date2>> \o Nums(<<3, 4, 5, 6, 7, 2>>), <<",">>)
LF == <<"\n">>
CR == <<"\r">>

CsvHeaderValidBlankInvalid == HeaderRow \o LF \o RowV1 \o LF \o LF \o RowShort \o LF
CsvInvalidValid == RowBadInt \o CR \o LF \o DataHeaderRow \o CR \o LF \o RowV1Extra
CsvSameDate == RowV1 \o LF \o RowV1 \o LF
CsvMac == RowV1 \o CR \o RowShort \o CR
CsvLateCR == RowV1 \o LF \o <<"x">> \o CR \o <<"y">> \o LF \o RowV1 \o LF

\* json items
JsonItem(d) == [isdict |-> TRUE, date |-> Some(d.date), main |-> Some(d.main),
                euro |-> Some(d.euro), source |-> d.source]
ItemV1 == JsonItem([date |-> Date1, main |-> <<1, 2, 3, 4, 5>>, euro |-> <<6, 7>>, source |-> None])
ItemV2 == JsonItem([date |-> Date2, main |-> <<3, 4, 5, 6, 7>>, euro |-> <<2, 12>>,
                    source |-> Some("manual")])
ItemBadEuro == JsonItem([date |-> Date2, main |-> <<1, 2, 3, 4, 5>>, euro |-> <<7, 7>>,
                         source |-> None])
ItemNoMain == [isdict |-> TRUE, date |-> Some(Date2), main |-> None, euro |-> Some(<<1, 2>>),
               source |-> None]
ItemNotDict == [isdict |-> FALSE, date |-> None, main |-> None, euro |-> None, source |-> None]

\* free-text lines
SP == <<" ">>
LineSpec == Date1 \o <<";", " ">> \o Join(Nums(<<1, 2, 3, 4, 5>>), SP) \o <<";", " ">>
            \o Join(Nums(<<6, 7>>), SP)
LineFourMain == Date2 \o <<";", " ">> \o Join(Nums(<<3, 4, 5, 6>>), SP) \o <<";", " ">>
                \o Join(Nums(<<2, 12>>), SP)
LineExtras == SP \o Date1 \o <<";">> \o Join(Nums(<<1, 2, 3, 4, 5, 8>>), <<" ", "\t">>) \o <<" ", ";">>
              \o Join(Nums(<<6, 7, 1>>), SP)
LineTwoParts == Date2 \o <<";", " ">> \o Join(Nums(<<3, 4, 5, 6, 7>>), SP)
LineBadInt == Date1 \o <<";">> \o Join(Nums(<<1, 2, 3, 4, 5>>), SP) \o <<";", "1", " ", "x">>

TextSpec == LineSpec
TextBlankShortExtras == LF \o LineFourMain \o LF \o <<" ", "\t">> \o LF \o LineExtras \o LF
TextErrors == LineTwoParts \o CR \o LineBadInt \o CR \o LF \o LineFourMain

BulkPayloads ==
    { [csv |-> None, json |-> None, text |-> None],
      [csv |-> Some(<<>>), json |-> Some(<<>>), text |-> Some(<<>>)],
      [csv |-> Some(CsvHeaderValidBlankInvalid), json |-> None, text |-> None],
      [csv |-> Some(CsvInvalidValid), json |-> None, text |-> None],
      [csv |-> Some(CsvSameDate), json |-> None, text |-> None],
      [csv |-> Some(CsvMac), json |-> None, text |-> None],
      [csv |-> Some(CsvLateCR), json |-> Some(<<ItemV1>>), text |-> Some(TextBlankShortExtras)],
      [csv |-> None, json |-> Some(<<ItemV2>>), text |-> None],
      [csv |-> None, json |-> Some(<<ItemNotDict, ItemBadEuro, ItemV1, ItemNoMain>>),
       text |-> Some(TextBlankShortExtras)],
      [csv |-> None, json |-> None, text |-> Some(TextSpec)],
      [csv |-> None, json |-> None, text |-> Some(TextErrors)],
      [csv |-> Some(CsvInvalidValid), json |-> Some(<<ItemNoMain>>),
       text |-> Some(TextErrors)] }

\* path parameters: the ids the store can hand out, and malformed ones
MalformedIds == { <<"x", "y", "z">>, [i \in 1..OidHexLen |-> IF i = 1 THEN "g" ELSE "0"] }
PathIds == {OidStr(n) : n \in 1..MaxOid} \cup MalformedIds

Limits == {None, Some(0), Some(1), Some(200)}

\* The requests with what the framework and the parsers make of them before
\* any state is read: FastAPI's Draw / Prediction of a body, ObjectId of a
\* path parameter, the records of a bulk payload.
DrawRequests ==
    {[body |-> b, model |-> Draw(b.date, b.main, b.euro, b.source)] : b \in DrawBodies}

PredictionRequests ==
    {[body |-> b, model |-> Prediction(b.main, b.euro, b.seed, b.method, b.notes)] :
        b \in PredictionBodies}

PathRequests == {[draw_id |-> t, oid |-> ObjectId(t)] : t \in PathIds}

BulkRequests == {[payload |-> p, records |-> BulkRecords(p)] : p \in BulkPayloads}

(***************************************************************************)
(* The endpoints (main.py).  A handler is a function of the collection,    *)
(* the next ObjectId, the request and the time it reads; it gives the      *)
(* collection it leaves and its response.  Status 422 is FastAPI rejecting *)
(* the body before the handler runs, 500 an exception leaving the handler. *)
(* The action of an endpoint applies the handler to a request and keeps    *)
(* the response in resp.                                                   *)
(***************************************************************************)
\* values _now() / datetime.utcnow() may return: time does not run backwards
Nows == {t \in {clock, clock + 1} : t <= MaxClock}

\* DrawOut.model_validate(doc) / PredictionOut.model_validate(doc)
DrawOut(doc) ==
    [id |-> OidStr(doc._id), date |-> doc.date, main |-> doc.main, euro |-> doc.euro,
     source |-> doc.source, created_at |-> doc.created_at, updated_at |-> doc.updated_at]

PredictionOut(doc) ==
    [id |-> OidStr(doc._id), main |-> doc.main, euro |-> doc.euro, seed |-> doc.seed,
     method |-> doc.method, notes |-> doc.notes, matched |-> doc.matched,
     created_at |-> doc.created_at, updated_at |-> doc.updated_at]

\* update_many({}, {"$set": fields}): every document takes the fields
update_many(coll, oid, fields) == [i \in 1..Len(coll) |-> fields @@ coll[i]]

\* find_one_and_update({"_id": oid}, {"$set": fields}): the collection after
find_one_and_update(coll, oid, fields) ==
    [i \in 1..Len(coll) |-> IF coll[i]._id = oid THEN fields @@ coll[i] ELSE coll[i]]

DocById(coll, oid) == coll[CHOOSE i \in 1..Len(coll) : coll[i]._id = oid]

\* GET /test
test_root_call(draws, predictions) ==
    [op |-> "test_root", status |-> 200, ok |-> TRUE,
     draws |-> Len(draws), predictions |-> Len(predictions)]

test_root ==
    /\ resp' = test_root_call(draw, prediction)
    /\ UNCHANGED <<draw, prediction, next_oid, clock>>

\* POST /draws
add_draw_call(coll, oid, req, now) ==
    IF ~ req.model.ok
    THEN [draw |-> coll, resp |-> [op |-> "add_draw", status |-> 422]]
    ELSE IF ExistsDate(coll, req.model.value.date)
    THEN [draw |-> coll, resp |-> [op |-> "add_draw", status |-> 409]]
    ELSE LET doc == create_document(req.model.value, oid, now)
         IN  [draw |-> Append(coll, doc),
              resp |-> [op |-> "add_draw", status |-> 200, out |-> DrawOut(doc)]]

add_draw ==
    \E req \in DrawRequests, now \in Nows :
        LET r == add_draw_call(draw, next_oid, req, now)
            wrote == r.resp.status = 200
        IN  /\ wrote => next_oid <= MaxOid
            /\ draw' = r.draw
            /\ resp' = r.resp
            /\ next_oid' = IF wrote THEN next_oid + 1 ELSE next_oid
            /\ clock' = IF wrote THEN now ELSE clock
            /\ UNCHANGED prediction

\* GET /draws
list_draws_call(docs, limit) ==
    [op |-> "list_draws", status |-> 200,
     list |-> [i \in 1..Len(Limited(docs, limit)) |-> DrawOut(Limited(docs, limit)[i])]]

list_draws ==
    \E limit \in Limits, docs \in SortedDesc(draw, "date") :
        /\ resp' = list_draws_call(docs, limit)
        /\ UNCHANGED <<draw, prediction, next_oid, clock>>

\* PUT /draws/{draw_id}
update_draw_call(coll, path, req, now) ==
    IF ~ req.model.ok
    THEN [draw |-> coll, resp |-> [op |-> "update_draw", status |-> 422]]
    ELSE IF ~ path.oid.ok
    THEN [draw |-> coll, resp |-> [op |-> "update_draw", status |-> 400]]
    ELSE IF ~ HasId(coll, path.oid.v)
    THEN [draw |-> coll, resp |-> [op |-> "update_draw", status |-> 404]]
    ELSE LET after == find_one_and_update(coll, path.oid.v,
                                          req.model.value @@ [updated_at |-> now])
         IN  [draw |-> after,
              resp |-> [op |-> "update_draw", status |-> 200,
                        out |-> DrawOut(DocById(after, path.oid.v))]]

update_draw ==
    \E path \in PathRequests, req \in DrawRequests, now \in Nows :
        LET r == update_draw_call(draw, path, req, now)
        IN  /\ draw' = r.draw
            /\ resp' = r.resp
            /\ clock' = IF r.resp.status = 200 THEN now ELSE clock
            /\ UNCHANGED <<prediction, next_oid>>

\* DELETE /draws/{draw_id}
delete_draw_call(coll, path) ==
    IF ~ path.oid.ok
    THEN [draw |-> coll, resp |-> [op |-> "delete_draw", status |-> 400]]
    ELSE [draw |-> WithoutId(coll, path.oid.v),
          resp |-> [op |-> "delete_draw", status |-> 200,
                    deleted |-> Len(coll) - Len(WithoutId(coll, path.oid.v))]]

delete_draw ==
    \E path \in PathRequests :
        LET r == delete_draw_call(draw, path)
        IN  /\ draw' = r.draw
            /\ resp' = r.resp
            /\ UNCHANGED <<prediction, next_oid, clock>>

\* DELETE /draws
clear_draws ==
    /\ draw' = <<>>
    /\ resp' = [op |-> "clear_draws", status |-> 200, deleted |-> Len(draw)]
    /\ UNCHANGED <<prediction, next_oid, clock>>

\* POST /draws/bulk
add_draws_bulk_call(coll, oid, req, now) ==
    LET run == BulkRun(req.records,
                       [draw |-> coll, next_oid |-> oid, inserted |-> <<>>,
                        errors |-> <<>>, raised |-> FALSE], now)
    IN  [draw |-> run.draw, next_oid |-> run.next_oid,
         resp |-> IF run.raised
                  THEN [op |-> "add_draws_bulk", status |-> 500, payload |-> req.payload]
                  ELSE [op |-> "add_draws_bulk", status |-> 200, payload |-> req.payload,
                        inserted |-> run.inserted, errors |-> run.errors]]

add_draws_bulk ==
    \E req \in BulkRequests, now \in Nows :
        LET r == add_draws_bulk_call(draw, next_oid, req, now)
        IN  /\ r.next_oid <= MaxOid + 1
            /\ draw' = r.draw
            /\ next_oid' = r.next_oid
            /\ resp' = r.resp
            /\ clock' = IF r.next_oid > next_oid THEN now ELSE clock
            /\ UNCHANGED prediction

\* a lookup that never finds a document
FindNothing(coll) == {None}

\* find_one(sort=[("date", -1)]): None, or one of the documents of greatest date
FindLatest(coll) == IF coll = <<>> THEN {None} ELSE {Some(d) : d \in LatestDraws(coll)}

\* POST /predictions; latest is what find_one(sort=[("date", -1)]) returned
save_prediction_call(preds, oid, req, latest, now) ==
    IF ~ req.model.ok
    THEN [prediction |-> preds, resp |-> [op |-> "save_prediction", status |-> 422]]
    ELSE LET matched == IF latest = None THEN None
                        ELSE Some(count_matches(req.model.value, latest[1]))
             doc == create_document(
                        req.model.value @@ [matched |-> [latest_match |-> matched]], oid, now)
         IN  [prediction |-> Append(preds, doc),
              resp |-> [op |-> "save_prediction", status |-> 200, out |-> PredictionOut(doc)]]

save_prediction ==
    \E req \in PredictionRequests, now \in Nows, latest \in FindLatest(draw) :
        LET r == save_prediction_call(prediction, next_oid, req, latest, now)
            wrote == r.resp.status = 200
        IN  /\ wrote => next_oid <= MaxOid
            /\ prediction' = r.prediction
            /\ resp' = r.resp
            /\ next_oid' = IF wrote THEN next_oid + 1 ELSE next_oid
            /\ clock' = IF wrote THEN now ELSE clock
            /\ UNCHANGED draw

\* GET /predictions
list_predictions_call(docs, limit) ==
    [op |-> "list_predictions", status |-> 200,
     list |-> [i \in 1..Len(Limited(docs, limit)) |-> PredictionOut(Limited(docs, limit)[i])]]

list_predictions ==
    \E limit \in Limits, docs \in SortedDesc(prediction, "created_at") :
        /\ resp' = list_predictions_call(docs, limit)
        /\ UNCHANGED <<draw, prediction, next_oid, clock>>

\* DELETE /predictions
clear_predictions ==
    /\ prediction' = <<>>
    /\ resp' = [op |-> "clear_predictions", status |-> 200, deleted |-> Len(prediction)]
    /\ UNCHANGED <<draw, next_oid, clock>>

\* the loop of latest_insights over the predictions in cursor order
RECURSIVE MatchedPreds(_, _)
MatchedPreds(preds, latest) ==
    IF preds = <<>> THEN <<>>
    ELSE LET p == Head(preds)
             m == count_matches(p, latest)
         IN  (IF m.total > 0 THEN <<[_id |-> OidStr(p._id), matches |-> m]>> ELSE <<>>)
             \o MatchedPreds(Tail(preds), latest)

\* GET /insights/latest; latest is what find_one returned, preds the cursor
\* of find().sort("created_at", -1)
latest_insights_call(latest, preds) ==
    IF latest = None
    THEN [op |-> "latest_insights", status |-> 200, has_latest |-> FALSE]
    ELSE [op |-> "latest_insights", status |-> 200, has_latest |-> TRUE,
          latest_date |-> FormatDate(latest[1].date),
          matched_predictions |-> MatchedPreds(preds, latest[1])]

latest_insights ==
    \E latest \in FindLatest(draw), preds \in SortedDesc(prediction, "created_at") :
        /\ resp' = latest_insights_call(latest, preds)
        /\ UNCHANGED <<draw, prediction, next_oid, clock>>

Init ==
    /\ draw = <<>>
    /\ prediction = <<>>
    /\ next_oid = 1
    /\ clock = 0
    /\ resp = [op |-> "startup", status |-> 0]

Next ==
    \/ test_root
    \/ add_draw
    \/ list_draws
    \/ update_draw
    \/ delete_draw
    \/ clear_draws
    \/ add_draws_bulk
    \/ save_prediction
    \/ list_predictions
    \/ clear_predictions
    \/ latest_insights

Spec == Init /\ [][Next]_vars

(***************************************************************************)
(* The claims.  A claim about what a request does is stated for every      *)
(* request of the input sets in every reachable state (the handler applied *)
(* to the state, as its action applies it); a claim about what a request   *)
(* leaves alone is stated on the steps.  The vocabulary below is defined   *)
(* on the stored documents and on the raw text, apart from the handlers.   *)
(***************************************************************************)
StoredDates == {draw[i].date : i \in 1..Len(draw)}

\* after holds before's documents, unchanged and in place, then the added ones
Extends(before, after) == Len(before) <= Len(after) /\ SubSeq(after, 1, Len(before)) = before
Added(before, after) == SubSeq(after, Len(before) + 1, Len(after))

Distinct(v) == \A i, j \in 1..Len(v) : v[i] = v[j] => i = j
WellFormedMain(v) == Len(v) = 5 /\ Distinct(v) /\ \A i \in 1..Len(v) : v[i] \in 1..50
WellFormedEuro(v) == Len(v) = 2 /\ Distinct(v) /\ \A i \in 1..Len(v) : v[i] \in 1..12

\* how many different numbers of a also occur in b
Shared(a, b) == Cardinality({a[i] : i \in {k \in 1..Len(a) : \E j \in 1..Len(b) : a[k] = b[j]}})
Hits(p, d) == [main |-> Shared(p.main, d.main), euro |-> Shared(p.euro, d.euro),
               total |-> Shared(p.main, d.main) + Shared(p.euro, d.euro)]

\* the positions of the stored Draws of greatest date
GreatestDraws == {i \in 1..Len(draw) : \A j \in 1..Len(draw) : draw[j].date <= draw[i].date}

SameDraw(doc, value) == doc.date = value.date /\ doc.main = value.main /\ doc.euro = value.euro

\* C1: in every reachable state no two stored Draw documents have the same
\* date.  The code does not keep this: the bulk loops insert without looking
\* the date up and PUT sets the date of a document to one already stored.
C1_OneDrawPerDate == \A i, j \in 1..Len(draw) : draw[i].date = draw[j].date => i = j

\* C2: POST /draws with a valid Draw answers 409 and leaves the collection as
\* it is when a stored Draw has the date, and otherwise appends exactly one
\* document, the posted Draw, to the collection.
C2_PostDrawConflictOrInsert ==
    \A req \in DrawRequests, now \in Nows :
        req.model.ok =>
            LET r == add_draw_call(draw, next_oid, req, now)
            IN  IF req.model.value.date \in StoredDates
                THEN r.resp.status = 409 /\ r.draw = draw
                ELSE /\ r.resp.status = 200
                     /\ Extends(draw, r.draw)
                     /\ Len(r.draw) = Len(draw) + 1
                     /\ SameDraw(r.draw[Len(r.draw)], req.model.value)
                     /\ r.resp.out.id = OidStr(r.draw[Len(r.draw)]._id)

\* C2 witness: a POST /draws was answered 409 with a Draw of that date stored
C2_ConflictAnswered == resp.op = "add_draw" /\ resp.status = 409 /\ draw # <<>>

\* the records of a bulk payload as the text shows them: csv rows and text
\* lines end at "\n", "\r" or "\r\n"; blank rows, header rows and blank
\* lines are no records
CsvCells(line) == IF line = <<>> THEN <<>> ELSE split(line, ",")
CsvRows(payload) == IF Truthy(payload.csv) THEN splitlines(payload.csv[1]) ELSE <<>>
CsvDataRows(payload) ==
    {i \in 1..Len(CsvRows(payload)) : ~ CsvSkipped(CsvCells(CsvRows(payload)[i]))}
JsonItems(payload) == IF Truthy(payload.json) THEN payload.json[1] ELSE <<>>
TextLines(payload) == IF Truthy(payload.text) THEN splitlines(payload.text[1]) ELSE <<>>
TextDataLines(payload) ==
    {i \in 1..Len(TextLines(payload)) : strip(TextLines(payload)[i]) # <<>>}
RecordCount(payload) ==
    Cardinality(CsvDataRows(payload)) + Len(JsonItems(payload))
    + Cardinality(TextDataLines(payload))

\* C3: POST /draws/bulk always answers {inserted, errors}, with one outcome
\* for every record of the payload that is not skipped, one document stored
\* for every inserted id and the documents stored before left in place.  The
\* code does not keep this: csv.reader raises csv.Error on a "\r" that is
\* followed by another character of the line, the `for` statement that
\* iterates the reader is outside the try, and the request ends as a server
\* error with the later rows and the json and text blocks unread.
C3_BulkOneOutcomePerRecord ==
    [][ resp'.op = "add_draws_bulk" =>
            /\ resp'.status = 200
            /\ Len(resp'.inserted) + Len(resp'.errors) = RecordCount(resp'.payload)
            /\ Extends(draw, draw')
            /\ Len(draw') = Len(draw) + Len(resp'.inserted) ]_vars

\* the data rows of a csv block that are valid / invalid Draws
CsvValidRows(payload) ==
    {i \in CsvDataRows(payload) : CsvDraw(CsvCells(CsvRows(payload)[i])).ok}
CsvInvalidRows(payload) == CsvDataRows(payload) \ CsvValidRows(payload)

\* C4: a bulk request whose csv block holds one valid and one invalid data
\* row (and no other block) answers one inserted id and one error whose `row`
\* is the 1-based position of the invalid row, header and blank rows counted,
\* and stores the valid row's Draw.  The code does not keep this for a block
\* whose rows end in "\r" alone: see C3.
C4_CsvOneValidOneInvalid ==
    [][ ( /\ resp'.op = "add_draws_bulk"
          /\ JsonItems(resp'.payload) = <<>>
          /\ TextLines(resp'.payload) = <<>>
          /\ Cardinality(CsvValidRows(resp'.payload)) = 1
          /\ Cardinality(CsvInvalidRows(resp'.payload)) = 1 ) =>
            LET valid == CHOOSE i \in CsvValidRows(resp'.payload) : TRUE
                invalid == CHOOSE i \in CsvInvalidRows(resp'.payload) : TRUE
            IN  /\ resp'.status = 200
                /\ Len(resp'.inserted) = 1
                /\ Len(resp'.errors) = 1
                /\ "row" \in DOMAIN resp'.errors[1]
                /\ resp'.errors[1].row = invalid
                /\ Extends(draw, draw')
                /\ Len(draw') = Len(draw) + 1
                /\ SameDraw(draw'[Len(draw')],
                            CsvDraw(CsvCells(CsvRows(resp'.payload)[valid])).value)
                /\ resp'.inserted[1] = OidStr(draw'[Len(draw')]._id) ]_vars

\* C5: every stored Draw and every stored Prediction has main of exactly 5
\* pairwise distinct integers in 1..50 and euro of exactly 2 pairwise
\* distinct integers in 1..12; POST /draws, PUT /draws/{id} and
\* POST /predictions with a body whose main or euro violates a clause answer
\* 422 and store nothing, and a bulk record whose main or euro (as the
\* format reads them) violates a clause is not stored.
C5_StoredNumbersWellFormed ==
    /\ \A i \in 1..Len(draw) : WellFormedMain(draw[i].main) /\ WellFormedEuro(draw[i].euro)
    /\ \A i \in 1..Len(prediction) :
           WellFormedMain(prediction[i].main) /\ WellFormedEuro(prediction[i].euro)
    /\ \A req \in DrawRequests, now \in Nows :
           ~ (WellFormedMain(req.body.main) /\ WellFormedEuro(req.body.euro)) =>
               /\ add_draw_call(draw, next_oid, req, now).resp.status = 422
               /\ add_draw_call(draw, next_oid, req, now).draw = draw
               /\ \A path \in PathRequests :
                      /\ update_draw_call(draw, path, req, now).resp.status = 422
                      /\ update_draw_call(draw, path, req, now).draw = draw
    /\ \A req \in PredictionRequests, now \in Nows, latest \in FindLatest(draw) :
           ~ (WellFormedMain(req.body.main) /\ WellFormedEuro(req.body.euro)) =>
               /\ save_prediction_call(prediction, next_oid, req, latest, now).resp.status = 422
               /\ save_prediction_call(prediction, next_oid, req, latest, now).prediction
                      = prediction
    /\ \A req \in BulkRequests, now \in Nows :
           LET r == add_draws_bulk_call(draw, next_oid, req, now)
               new == Added(draw, r.draw)
           IN  /\ Extends(draw, r.draw)
               /\ \A k \in 1..Len(new) : WellFormedMain(new[k].main) /\ WellFormedEuro(new[k].euro)
               /\ Len(new) <= Cardinality({k \in 1..Len(req.records) :
                                              /\ req.records[k].kind = "try"
                                              /\ req.records[k].d.ok
                                              /\ WellFormedMain(req.records[k].d.value.main)
                                              /\ WellFormedEuro(req.records[k].d.value.euro)})

\* C5 witness: Draws and Predictions are stored and a POST /predictions with
\* invalid numbers has just been answered 422
C5_InvalidRejected ==
    draw # <<>> /\ prediction # <<>> /\ resp.op = "save_prediction" /\ resp.status = 422

\* every order of the numbers of a list
Orders(v) == {[i \in 1..Len(v) |-> v[q[i]]] : q \in Permutations(1..Len(v))}

\* the number lists of the request bodies, valid or not, and of the valid ones
AnyPredictions == {[main |-> r.body.main, euro |-> r.body.euro] : r \in PredictionRequests}
AnyDraws == {[main |-> r.body.main, euro |-> r.body.euro] : r \in DrawRequests}
ValidPredictions ==
    {[main |-> r.body.main, euro |-> r.body.euro] : r \in {q \in PredictionRequests : q.model.ok}}
ValidDraws ==
    {[main |-> r.body.main, euro |-> r.body.euro] : r \in {q \in DrawRequests : q.model.ok}}

\* count_matches on the inputs of the model, with the numbers of the valid
\* ones in every order
CountMatchesOnInputs ==
    /\ \A p \in AnyPredictions, d \in AnyDraws :
           /\ count_matches(p, d) = Hits(p, d)
           /\ count_matches(p, d).total = count_matches(p, d).main + count_matches(p, d).euro
           /\ count_matches(d, p) = count_matches(p, d)
    /\ \A p \in ValidPredictions, d \in ValidDraws :
           /\ count_matches(p, d).main \in 0..5
           /\ count_matches(p, d).euro \in 0..2
           /\ \A pm \in Orders(p.main), pe \in Orders(p.euro) :
                  count_matches([main |-> pm, euro |-> pe], d) = count_matches(p, d)
           /\ \A dm \in Orders(d.main), de \in Orders(d.euro) :
                  count_matches(p, [main |-> dm, euro |-> de]) = count_matches(p, d)

\* C6: count_matches(p, d) gives main and euro as the sizes of the
\* intersections and total as their sum, gives the same when p and d are
\* swapped or their numbers reordered, and for validated p and d has
\* 0 <= main <= 5 and 0 <= euro <= 2: on the inputs of the model and on every
\* stored Prediction against every stored Draw.
C6_CountMatches ==
    /\ CountMatchesOnInputs
    /\ \A i \in 1..Len(prediction), j \in 1..Len(draw) :
           LET m == count_matches(prediction[i], draw[j])
           IN  /\ m.main = Shared(prediction[i].main, draw[j].main)
               /\ m.euro = Shared(prediction[i].euro, draw[j].euro)
               /\ m.total = m.main + m.euro
               /\ count_matches(draw[j], prediction[i]) = m
               /\ m.main \in 0..5 /\ m.euro \in 0..2

\* C6 witness: a stored Prediction carries a match with main and euro both
\* counted
C6_BothCounted ==
    \E i \in 1..Len(prediction) :
        /\ prediction[i].matched.latest_match # None
        /\ prediction[i].matched.latest_match[1].main > 0
        /\ prediction[i].matched.latest_match[1].euro > 0

CreatedOf(id) ==
    prediction[CHOOSE i \in 1..Len(prediction) : OidStr(prediction[i]._id) = id].created_at

\* what GET /insights/latest answers in the current state
C7_Answer ==
    \A latest \in FindLatest(draw), preds \in SortedDesc(prediction, "created_at") :
        LET r == latest_insights_call(latest, preds)
        IN  IF draw = <<>> THEN r.has_latest = FALSE
            ELSE /\ r.has_latest = TRUE
                 /\ ParseDate(r.latest_date).ok
                 /\ ParseDate(r.latest_date).v \in StoredDates
                 /\ \A x \in StoredDates : x <= ParseDate(r.latest_date).v
                 /\ \E g \in GreatestDraws :
                        LET m == r.matched_predictions
                            expected == {i \in 1..Len(prediction) :
                                            Hits(prediction[i], draw[g]).total > 0}
                        IN  /\ Len(m) = Cardinality(expected)
                            /\ \A i \in expected : \E k \in 1..Len(m) :
                                   m[k] = [_id |-> OidStr(prediction[i]._id),
                                           matches |-> Hits(prediction[i], draw[g])]
                            /\ \A k \in 1..(Len(m) - 1) :
                                   CreatedOf(m[k]._id) >= CreatedOf(m[k + 1]._id)

\* C7: GET /insights/latest answers has_latest false exactly when no Draw is
\* stored; otherwise has_latest true, latest_date the greatest stored date,
\* and one entry (id and match) for each stored Prediction whose total
\* against a Draw of that date is > 0, none for the others, in descending
\* created_at; the request changes neither collection.
C7_LatestInsights ==
    /\ []C7_Answer
    /\ [][resp'.op = "latest_insights" => draw' = draw /\ prediction' = prediction]_vars

\* C7 witness: the insights list two Predictions, the later created first
C7_TwoMatchedLatestFirst ==
    /\ resp.op = "latest_insights"
    /\ resp.has_latest
    /\ Len(resp.matched_predictions) = 2
    /\ \E i, j \in 1..Len(prediction) :
           /\ i < j
           /\ prediction[i].created_at < prediction[j].created_at
           /\ resp.matched_predictions[1]._id = OidStr(prediction[j]._id)
           /\ resp.matched_predictions[2]._id = OidStr(prediction[i]._id)

\* what POST /predictions stores in the current state
C8_Creation ==
    \A req \in PredictionRequests, now \in Nows, latest \in FindLatest(draw) :
        req.model.ok =>
            LET r == save_prediction_call(prediction, next_oid, req, latest, now)
                doc == r.prediction[Len(r.prediction)]
            IN  /\ Extends(prediction, r.prediction)
                /\ Len(r.prediction) = Len(prediction) + 1
                /\ doc.main = req.body.main /\ doc.euro = req.body.euro
                /\ IF draw = <<>> THEN doc.matched.latest_match = None
                   ELSE \E g \in GreatestDraws :
                            doc.matched.latest_match = Some(Hits(req.body, draw[g]))

\* C8: POST /predictions stores matched.latest_match as the match of the
\* prediction against a Draw of the greatest date stored at that moment, null
\* when no Draw is stored; no draw operation and no read changes a stored
\* Prediction, and POST /predictions leaves the earlier Predictions as they
\* are.
C8_SnapshotFixedAtCreation ==
    /\ []C8_Creation
    /\ [][ /\ resp'.op \notin {"save_prediction", "clear_predictions"}
                => prediction' = prediction
           /\ resp'.op = "save_prediction" => Extends(prediction, prediction') ]_vars

\* C8 witness: a stored match differs from the match against every Draw of
\* the greatest date stored now
C8_StaleSnapshot ==
    /\ draw # <<>>
    /\ \E i \in 1..Len(prediction) :
           /\ prediction[i].matched.latest_match # None
           /\ \A g \in GreatestDraws :
                  prediction[i].matched.latest_match[1] # Hits(prediction[i], draw[g])

\* free-text lines: fewer than 5 main tokens in the second field, and the
\* form `date; m1 m2 m3 m4 m5; e1 e2` with a valid Draw
TextFields(line) == split(line, ";")
ShortMainLine(line) ==
    /\ strip(line) # <<>>
    /\ Len(TextFields(line)) < 2 \/ Len(split_ws(TextFields(line)[2])) < 5
SpecFormLine(line) ==
    /\ Len(TextFields(line)) = 3
    /\ Len(split_ws(TextFields(line)[2])) = 5
    /\ Len(split_ws(TextFields(line)[3])) = 2
    /\ TextDraw(line).ok

\* C9: in a bulk request with a free-text block, a non-blank line with fewer
\* than 5 main tokens gives exactly one error whose `line` is its 1-based
\* number in the block, blank lines counted, and no Draw; a line of the form
\* `date; m1 m2 m3 m4 m5; e1 e2` with valid numbers gives a stored Draw of
\* that date, main and euro.  The code does not keep this when the csv block
\* of the same request makes the reader raise: see C3.
C9_FreeTextLines ==
    [][ resp'.op = "add_draws_bulk" =>
            \A i \in 1..Len(TextLines(resp'.payload)) :
                LET line == TextLines(resp'.payload)[i]
                IN  /\ ShortMainLine(line) =>
                           /\ resp'.status = 200
                           /\ Cardinality({k \in 1..Len(resp'.errors) :
                                              /\ "line" \in DOMAIN resp'.errors[k]
                                              /\ resp'.errors[k].line = i}) = 1
                           /\ Len(resp'.inserted) + Len(resp'.errors)
                                  = RecordCount(resp'.payload)
                    /\ SpecFormLine(line) =>
                           /\ resp'.status = 200
                           /\ \E k \in 1..Len(Added(draw, draw')) :
                                  SameDraw(Added(draw, draw')[k], TextDraw(line).value) ]_vars

HexDigits == {"0", "1", "2", "3", "4", "5", "6", "7", "8", "9",
              "a", "b", "c", "d", "e", "f", "A", "B", "C", "D", "E", "F"}
WellFormedId(t) == Len(t) = 24 /\ \A i \in 1..Len(t) : t[i] \in HexDigits

\* C10: PUT /draws/{id} with a valid Draw answers 400 for a malformed id and
\* 404 for a well-formed id of no stored Draw, the collection unchanged in
\* both cases; for the id of a stored Draw it sets that document's date,
\* main, euro and source to the body's and its updated_at to the time of the
\* call, keeps its _id and created_at, and leaves every other document, and
\* the number and order of the documents, as they are.
C10_PutDraw ==
    \A path \in PathRequests, req \in DrawRequests, now \in Nows :
        req.model.ok =>
            LET r == update_draw_call(draw, path, req, now)
                hit == {i \in 1..Len(draw) : OidStr(draw[i]._id) = lower(path.draw_id)}
            IN  IF ~ WellFormedId(path.draw_id)
                THEN r.resp.status = 400 /\ r.draw = draw
                ELSE IF hit = {}
                THEN r.resp.status = 404 /\ r.draw = draw
                ELSE /\ r.resp.status = 200
                     /\ Len(r.draw) = Len(draw)
                     /\ \A i \in 1..Len(draw) :
                            IF i \in hit
                            THEN /\ r.draw[i] = [_id |-> draw[i]._id,
                                                 created_at |-> draw[i].created_at,
                                                 updated_at |-> now,
                                                 date |-> req.model.value.date,
                                                 main |-> req.body.main,
                                                 euro |-> req.body.euro,
                                                 source |-> req.body.source]
                                 /\ now >= draw[i].updated_at
                            ELSE r.draw[i] = draw[i]

\* C10 witness: a PUT has replaced one of two stored Draws at a later time
\* than its creation, the other Draw as it was created
C10_OneOfTwoReplaced ==
    /\ resp.op = "update_draw"
    /\ resp.status = 200
    /\ Len(draw) = 2
    /\ \E i, j \in 1..Len(draw) :
           /\ i # j
           /\ OidStr(draw[i]._id) = resp.out.id
           /\ draw[i].updated_at > draw[i].created_at
           /\ draw[j].updated_at = draw[j].created_at

====
